---- MODULE Spec2Model ----
(***************************************************************************)
(* The Samsung soundbar integration: the device client SoundbarAPI         *)
(* (exec_cmd, get_value, set_value, get_soundbar_status) and the entity    *)
(* SamsungSoundbarEntity (async_update, async_mute_volume,                 *)
(* async_set_volume_level) of custom_components/samsung_soundbar, the      *)
(* user step of its config flow (SoundbarConfigFlow) and the setup and     *)
(* unload of its config entries (async_setup_entry, async_unload_entry).   *)
(*                                                                         *)
(* Text is a sequence of one-character strings, so that the f-strings and  *)
(* the URL encoding of the source are computed character by character.     *)
(* A Python value is a record [t, v]: t is the type, v the payload.        *)
(***************************************************************************)
EXTENDS Integers, Sequences, FiniteSets, TLC

VARIABLES
    _state,     \* SamsungSoundbarEntity._state
    _volume,    \* SamsungSoundbarEntity._volume
    _is_muted,  \* SamsungSoundbarEntity._is_muted
    task,       \* the running coroutines: one record per host call slot
    inflight,   \* the HTTP GETs issued through session.get and not yet answered
    refreshed,  \* history: an async_update has returned without raising
    flow,       \* SoundbarConfigFlow: where the user step stands and its result
    hass_data,  \* hass.data
    config_entries, \* the host's config entries: data, update listeners, state
    host_call   \* history: the host's latest call of setup or unload, its result

entity_vars == <<_state, _volume, _is_muted, task, inflight, refreshed>>
hass_vars == <<hass_data, config_entries, host_call>>
vars == <<_state, _volume, _is_muted, task, inflight, refreshed, flow,
          hass_data, config_entries, host_call>>

---------------------------------------------------------------------------
(* Bounds of the model. *)

\* Number of host calls that may run at the same time in SpecConc.
NumTasks == 2
\* Longest action text handed to get_value in SpecGetValue.
MaxLen == 3
\* Number of times the user submits the form of the config flow in SpecFlow.
MaxTries == 3
\* Number of config entries of the host in SpecLifecycle.
NumEntries == 2

---------------------------------------------------------------------------
(* Characters: the printable ASCII range, codes 32..126 (code 96 is named, *)
(* not written: the grave accent cannot stand in a string here).           *)

Ascii ==
    << " ", "!", "\"", "#", "$", "%", "&", "'", "(", ")", "*", "+", ",", "-", ".", "/",
       "0", "1", "2", "3", "4", "5", "6", "7", "8", "9", ":", ";", "<", "=", ">", "?",
       "@", "A", "B", "C", "D", "E", "F", "G", "H", "I", "J", "K", "L", "M", "N", "O",
       "P", "Q", "R", "S", "T", "U", "V", "W", "X", "Y", "Z", "[", "\\", "]", "^", "_",
       "grave", "a", "b", "c", "d", "e", "f", "g", "h", "i", "j", "k", "l", "m", "n", "o",
       "p", "q", "r", "s", "t", "u", "v", "w", "x", "y", "z", "{", "|", "}", "~" >>

\* The code of a character, and the character of a code.
OrdTable == [c \in {Ascii[i] : i \in 1..Len(Ascii)} |-> 31 + (CHOOSE i \in 1..Len(Ascii) : Ascii[i] = c)]
Ord(c) == OrdTable[c]
Chr(n) == Ascii[n - 31]

HexDigits == << "0", "1", "2", "3", "4", "5", "6", "7", "8", "9", "A", "B", "C", "D", "E", "F" >>
Digits == << "0", "1", "2", "3", "4", "5", "6", "7", "8", "9" >>

IsDigit(c) == \E i \in 1..Len(Digits) : Digits[i] = c
DigitVal(c) == (CHOOSE i \in 1..Len(Digits) : Digits[i] = c) - 1

---------------------------------------------------------------------------
(* Python values. *)

PyNone == [t |-> "None", v |-> <<>>]
PyStr(s) == [t |-> "str", v |-> s]
PyInt(n) == [t |-> "int", v |-> n]
PyBool(b) == [t |-> "bool", v |-> b]
PyDict(f) == [t |-> "dict", v |-> f]
\* A float that is the quotient num/den, kept as the pair.
PyFloat(num, den) == [t |-> "float", v |-> [num |-> num, den |-> den]]

\* Python's ==, on a value and a text literal.
PyEqStr(x, s) == x.t = "str" /\ x.v = s

\* What a call hands back: a value, or a raised exception.
Return(x) == [kind |-> "return", val |-> x, exc |-> "-"]
Raise(e) == [kind |-> "raise", val |-> PyNone, exc |-> e]
Pending == [kind |-> "pending", val |-> PyNone, exc |-> "-"]

\* d[k] of Python.
PyGetItem(d, k) ==
    CASE d.t = "dict" -> IF k \in DOMAIN d.v THEN Return(d.v[k]) ELSE Raise("KeyError")
      [] OTHER -> Raise("TypeError")

\* d.get(k) of Python.
PyGet(d, k) ==
    CASE d.t = "dict" -> Return(IF k \in DOMAIN d.v THEN d.v[k] ELSE PyNone)
      [] OTHER -> Raise("AttributeError")

\* str(n) for an integer n >= 0.
RECURSIVE IntText(_)
IntText(n) == IF n < 10 THEN <<Digits[n + 1]>> ELSE IntText(n \div 10) \o <<Digits[(n % 10) + 1]>>

\* The value of a text of decimal digits.
RECURSIVE DecimalVal(_)
DecimalVal(s) == IF s = <<>> THEN 0 ELSE 10 * DecimalVal(SubSeq(s, 1, Len(s) - 1)) + DigitVal(s[Len(s)])

IsDecimal(s) == s # <<>> /\ \A i \in 1..Len(s) : IsDigit(s[i])

\* float(x) of Python on the values a response field can hold here: a text of
\* digits is its number, any other text of the model is no number, None is no
\* text at all.  The result is the number as a quotient over 1.
float_(x) ==
    CASE x.t = "str" /\ IsDecimal(x.v) -> Return(PyFloat(DecimalVal(x.v), 1))
      [] x.t = "str" -> Raise("ValueError")
      [] OTHER -> Raise("TypeError")

\* The digits after the point of r/den, for r < den and den a power of two:
\* the expansion ends, and is what repr gives for such a float.
RECURSIVE FracText(_, _)
FracText(r, den) ==
    IF r = 0 THEN <<>>
    ELSE <<Digits[((10 * r) \div den) + 1]>> \o FracText((10 * r) % den, den)

\* str(x) for a float x = num/den that is not negative, den a power of two.
FloatText(num, den) ==
    IntText(num \div den) \o <<".">>
    \o (IF num % den = 0 THEN <<"0">> ELSE FracText(num % den, den))

\* f"{value}" of Python for the values set_value is given here.
Format(x) ==
    CASE x.t = "str" -> x.v
      [] x.t = "int" -> IntText(x.v)
      [] x.t = "float" -> FloatText(x.v.num, x.v.den)
      [] x.t = "bool" -> IF x.v THEN <<"T", "r", "u", "e">> ELSE <<"F", "a", "l", "s", "e">>
      [] OTHER -> <<"N", "o", "n", "e">>

---------------------------------------------------------------------------
(* Texts of the source. *)

T_name_open == <<"<", "n", "a", "m", "e", ">">>
T_name_close == <<"<", "/", "n", "a", "m", "e", ">">>
T_GetPowerStatus == <<"G", "e", "t", "P", "o", "w", "e", "r", "S", "t", "a", "t", "u", "s">>
T_GetVolume == <<"G", "e", "t", "V", "o", "l", "u", "m", "e">>
T_GetMute == <<"G", "e", "t", "M", "u", "t", "e">>
T_SetMute == <<"S", "e", "t", "M", "u", "t", "e">>
T_SetVolume == <<"S", "e", "t", "V", "o", "l", "u", "m", "e">>
T_power == <<"p", "o", "w", "e", "r">>
T_volume == <<"v", "o", "l", "u", "m", "e">>
T_mute == <<"m", "u", "t", "e">>
T_on == <<"o", "n">>
T_off == <<"o", "f", "f">>
T_str == <<"s", "t", "r">>
T_dec == <<"d", "e", "c">>
T_UIC == <<"U", "I", "C">>
T_response == <<"r", "e", "s", "p", "o", "n", "s", "e">>

STATE_ON == "on"
STATE_OFF == "off"

DEFAULT_PORT == 80
Host == <<"s", "b">>

\* SoundbarAPI.__init__: f"http://{host}:{port}/UIC"
endpoint(host, port) ==
    <<"h", "t", "t", "p", ":", "/", "/">> \o host \o <<":">> \o IntText(port) \o <<"/", "U", "I", "C">>

self_endpoint == endpoint(Host, DEFAULT_PORT)

---------------------------------------------------------------------------
(* The URL of a command: urlencode({"cmd": cmd}, quote_via=quote). *)

\* The characters quote never escapes (its safe argument is empty here).
IsUnreserved(c) ==
    LET n == Ord(c)
    IN  n \in 48..57 \/ n \in 65..90 \/ n \in 97..122 \/ c \in {"_", ".", "-", "~"}

PercentEncode(c) == <<"%", HexDigits[(Ord(c) \div 16) + 1], HexDigits[(Ord(c) % 16) + 1]>>

RECURSIVE quote(_)
quote(s) ==
    IF s = <<>> THEN <<>>
    ELSE (IF IsUnreserved(s[1]) THEN <<s[1]>> ELSE PercentEncode(s[1])) \o quote(Tail(s))

\* The query as it would be if the command were not quoted.
urlencode_cmd_raw(cmd) == <<"c", "m", "d", "=">> \o cmd

urlencode_cmd(cmd) == <<"c", "m", "d", "=">> \o quote(cmd)

\* exec_cmd, up to the request: the URL it gets.  override is the optional
\* endpoint argument, None when absent.
exec_cmd_url(cmd, override) ==
    LET ep == IF override.t = "None" \/ override.v = <<>> THEN self_endpoint ELSE override.v
    IN  ep \o <<"?">> \o urlencode_cmd(cmd)

---------------------------------------------------------------------------
(* The answer to a request, and xmltodict.parse. *)

\* An XML element: its tag, its text, its child elements.
Elem(tag, text, children) == [tag |-> tag, text |-> text, children |-> children]

\* A response body: well-formed XML with a root element, or not XML.
Xml(root) == [wellformed |-> TRUE, root |-> root]
NotXml == [wellformed |-> FALSE, root |-> Elem(<<>>, <<>>, <<>>)]

\* What the network hands to session.get: a response, a timeout or a
\* connection failure.
HttpResponse(status, body) == [kind |-> "response", status |-> status, body |-> body]
Timeout == [kind |-> "timeout", status |-> 0, body |-> NotXml]
ConnectError == [kind |-> "connect_error", status |-> 0, body |-> NotXml]
NoOutcome == [kind |-> "none", status |-> 0, body |-> NotXml]

\* xmltodict's value of an element: None when empty, its text when it has
\* only text, a dict of its children by tag otherwise.
RECURSIVE xml_item(_)
xml_item(e) ==
    IF e.children = <<>>
    THEN IF e.text = <<>> THEN PyNone ELSE PyStr(e.text)
    ELSE PyDict([tg \in {e.children[i].tag : i \in 1..Len(e.children)} |->
                    xml_item(e.children[CHOOSE i \in 1..Len(e.children) : e.children[i].tag = tg])])

xmltodict_parse(body) ==
    IF body.wellformed
    THEN Return(PyDict(body.root.tag :> xml_item(body.root)))
    ELSE Raise("ExpatError")

\* exec_cmd as it would be if the lookup were
\* response_dict.get("UIC", {}).get("response", {}).get(key_to_extract).
exec_cmd_result_lenient(o, key_to_extract) ==
    CASE o.kind = "timeout" -> Raise("TimeoutError")
      [] o.kind = "connect_error" -> Raise("ClientConnectionError")
      [] o.status >= 400 -> Raise("ClientResponseError")
      [] OTHER ->
            LET response_dict == xmltodict_parse(o.body)
                uic == PyGetItem(response_dict.val, T_UIC)
                response == PyGetItem(uic.val, T_response)
            IN  CASE response_dict.kind = "raise" -> response_dict
                  [] uic.kind = "raise" -> Return(PyNone)
                  [] response.kind = "raise" -> Return(PyNone)
                  [] OTHER -> PyGet(response.val, key_to_extract)

\* exec_cmd as it would be if its except clauses returned None instead of
\* raising again, and caught the parse error too.
exec_cmd_result_swallow(o, key_to_extract) ==
    CASE o.kind = "timeout" -> Return(PyNone)
      [] o.kind = "connect_error" -> Return(PyNone)
      [] o.status >= 400 -> Return(PyNone)
      [] OTHER ->
            LET response_dict == xmltodict_parse(o.body)
                uic == PyGetItem(response_dict.val, T_UIC)
                response == PyGetItem(uic.val, T_response)
            IN  CASE response_dict.kind = "raise" -> Return(PyNone)
                  [] uic.kind = "raise" -> uic
                  [] response.kind = "raise" -> response
                  [] OTHER -> PyGet(response.val, key_to_extract)

\* exec_cmd from the answer on: raise_for_status, the parse, the lookup
\* response_dict["UIC"]["response"].get(key_to_extract); both except clauses
\* raise again what they caught.
exec_cmd_result(o, key_to_extract) ==
    CASE o.kind = "timeout" -> Raise("TimeoutError")
      [] o.kind = "connect_error" -> Raise("ClientConnectionError")
      [] o.status >= 400 -> Raise("ClientResponseError")
      [] OTHER ->
            LET response_dict == xmltodict_parse(o.body)
                uic == PyGetItem(response_dict.val, T_UIC)
                response == PyGetItem(uic.val, T_response)
            IN  CASE response_dict.kind = "raise" -> response_dict
                  [] uic.kind = "raise" -> uic
                  [] response.kind = "raise" -> response
                  [] OTHER -> PyGet(response.val, key_to_extract)

\* The exceptions of aiohttp.ClientError, and those exec_cmd names.
IsClientError(e) == e \in {"ClientConnectionError", "ClientResponseError"}

\* get_value: the command it builds.
get_value_cmd(action) == T_name_open \o action \o T_name_close

\* set_value: the command it builds.
set_value_cmd(action, property_name, value) ==
    LET value_type == IF value.t = "str" THEN T_str ELSE T_dec
    IN  T_name_open \o action \o T_name_close
        \o <<"<", "p", " ", "t", "y", "p", "e", "=", "\"">> \o value_type
        \o <<"\"", " ", "n", "a", "m", "e", "=", "\"">> \o property_name
        \o <<"\"", " ", "v", "a", "l", "=", "\"">> \o Format(value)
        \o <<"\"", "/", ">">>

\* get_soundbar_status: its three get_value calls, in order.
get_soundbar_status_calls ==
    << [action |-> T_name_open \o T_GetPowerStatus \o T_name_close, key |-> T_power],
       [action |-> T_name_open \o T_GetVolume \o T_name_close, key |-> T_volume],
       [action |-> T_name_open \o T_GetMute \o T_name_close, key |-> T_mute] >>

---------------------------------------------------------------------------
(* The coroutines.  A step of a coroutine is a function of its record and   *)
(* the cached snapshot; it yields the new record, the requests it issues    *)
(* and the new snapshot.                                                    *)

Snap == [state |-> _state, volume |-> _volume, is_muted |-> _is_muted]

NoDict == [x \in {} |-> PyNone]
NoArg == [mute |-> FALSE, volume |-> [num |-> 0, den |-> 1], action |-> <<>>, key |-> <<>>,
          property_name |-> <<>>, value |-> PyNone]

\* A call slot: op is the coroutine, pc where it stands, arg its arguments,
\* k and gs_status the position and the local status of get_soundbar_status,
\* status the local status of async_update, result what the call handed to
\* the host.  History kept for the properties: sent (the requests issued by
\* this call), execs (its calls of exec_cmd), last and res (the latest answer
\* and what exec_cmd made of it), answers (all its answers, in order), snap0
\* (the snapshot when the call began), snap1 (the snapshot its latest step
\* left).
NewTask(op, arg, snap) ==
    [op |-> op, pc |-> "idle", arg |-> arg, k |-> 0, gs_status |-> NoDict,
     status |-> PyNone, sent |-> <<>>, execs |-> 0, last |-> NoOutcome,
     res |-> Pending, answers |-> <<>>, result |-> Pending, snap0 |-> snap, snap1 |-> snap]

\* SamsungSoundbarEntity.__init__
InitSnap == [state |-> STATE_OFF, volume |-> PyNone, is_muted |-> FALSE]

\* exec_cmd is called: one session.get, and the coroutine waits for it.
exec_cmd_call(t, tr, cmd, key_to_extract) ==
    LET req == [task |-> t, n |-> Len(tr.sent) + 1,
                url |-> exec_cmd_url(cmd, PyNone), key |-> key_to_extract]
    IN  [task |-> [tr EXCEPT !.pc = "await", !.sent = Append(@, req), !.execs = @ + 1],
         out |-> {req}]

get_value_call(t, tr, action, key_to_extract) ==
    exec_cmd_call(t, tr, get_value_cmd(action), key_to_extract)

set_value_call(t, tr, action, property_name, value) ==
    exec_cmd_call(t, tr, set_value_cmd(action, property_name, value), property_name)

\* get_soundbar_status as it would be if it caught the error of a get_value
\* and went on with None for that key.
get_soundbar_status_resume_swallow(k, gs_status, res) ==
    LET status == (get_soundbar_status_calls[k].key :> res.val) @@ gs_status
    IN  CASE k < Len(get_soundbar_status_calls) -> [kind |-> "call", k |-> k + 1, status |-> status]
          [] OTHER -> [kind |-> "return", k |-> k, status |-> status]

\* get_soundbar_status after its k-th get_value ended with res: it raises, or
\* stores the value and goes on to the next call, or returns the status.
get_soundbar_status_resume(k, gs_status, res) ==
    LET status == (get_soundbar_status_calls[k].key :> res.val) @@ gs_status
    IN  CASE res.kind = "raise" -> [kind |-> "raise", k |-> k, status |-> gs_status]
          [] k < Len(get_soundbar_status_calls) -> [kind |-> "call", k |-> k + 1, status |-> status]
          [] OTHER -> [kind |-> "return", k |-> k, status |-> status]

\* async_update as it would be if the volume were not divided by 100 and
\* the state compared with "on".
async_update_apply_raw(status, snap) ==
    LET s1 == [snap EXCEPT !.is_muted = PyEqStr(status.v[T_mute], T_on)]
        f == float_(status.v[T_volume])
    IN  IF f.kind = "raise"
        THEN [snap |-> s1, result |-> f]
        ELSE [snap |-> [s1 EXCEPT
                          !.volume = PyFloat(f.val.v.num, f.val.v.den),
                          !.state = IF PyEqStr(status.v[T_power], T_on)
                                    THEN STATE_ON ELSE STATE_OFF],
              result |-> Return(PyNone)]

\* async_update as it would be if a mute value "on" toggled the cached
\* muted instead of setting it.
async_update_apply_toggle(status, snap) ==
    LET s1 == [snap EXCEPT !.is_muted = (PyEqStr(status.v[T_mute], T_on) # snap.is_muted)]
        f == float_(status.v[T_volume])
    IN  IF f.kind = "raise"
        THEN [snap |-> s1, result |-> f]
        ELSE [snap |-> [s1 EXCEPT
                          !.volume = PyFloat(f.val.v.num, f.val.v.den * 100),
                          !.state = IF PyEqStr(status.v[T_power], T_off)
                                    THEN STATE_OFF ELSE STATE_ON],
              result |-> Return(PyNone)]

\* async_update after get_soundbar_status returned: the three assignments,
\* in the order of the source; float() may raise between them.
async_update_apply(status, snap) ==
    LET s1 == [snap EXCEPT !.is_muted = PyEqStr(status.v[T_mute], T_on)]
        f == float_(status.v[T_volume])
    IN  IF f.kind = "raise"
        THEN [snap |-> s1, result |-> f]
        ELSE [snap |-> [s1 EXCEPT
                          !.volume = PyFloat(f.val.v.num, f.val.v.den * 100),
                          !.state = IF PyEqStr(status.v[T_power], T_off)
                                    THEN STATE_OFF ELSE STATE_ON],
              result |-> Return(PyNone)]

\* async_update as it would be if the three get_value calls were gathered:
\* all three requests go out before any answer.
async_update_start_gather(t, snap) ==
    LET tr == [NewTask("async_update", NoArg, snap) EXCEPT !.k = 1]
        reqs == [i \in 1..Len(get_soundbar_status_calls) |->
                    [task |-> t, n |-> i,
                     url |-> exec_cmd_url(get_value_cmd(get_soundbar_status_calls[i].action), PyNone),
                     key |-> get_soundbar_status_calls[i].key]]
    IN  [task |-> [tr EXCEPT !.pc = "await", !.sent = reqs, !.execs = Len(reqs)],
         out |-> {reqs[i] : i \in 1..Len(reqs)}, snap |-> snap]

\* async_update is called: get_soundbar_status runs to its first request.
async_update_start(t, snap) ==
    LET tr == [NewTask("async_update", NoArg, snap) EXCEPT !.k = 1]
        c == get_value_call(t, tr, get_soundbar_status_calls[1].action,
                            get_soundbar_status_calls[1].key)
    IN  [task |-> c.task, out |-> c.out, snap |-> snap]

\* async_update as it would be if a failed fetch reset the entity to unknown.
async_update_resume_reset(t, tr, snap, res) ==
    LET g == get_soundbar_status_resume(tr.k, tr.gs_status, res)
        c == get_value_call(t, [tr EXCEPT !.k = g.k, !.gs_status = g.status],
                            get_soundbar_status_calls[g.k].action,
                            get_soundbar_status_calls[g.k].key)
        a == async_update_apply(PyDict(g.status), snap)
    IN  CASE g.kind = "raise" ->
                [task |-> [tr EXCEPT !.pc = "done", !.result = res], out |-> {}, snap |-> InitSnap]
          [] g.kind = "call" ->
                [task |-> c.task, out |-> c.out, snap |-> snap]
          [] OTHER ->
                [task |-> [tr EXCEPT !.pc = "done", !.gs_status = g.status,
                                     !.status = PyDict(g.status), !.result = a.result],
                 out |-> {}, snap |-> a.snap]

\* async_update when the awaited exec_cmd ended with res.
async_update_resume(t, tr, snap, res) ==
    LET g == get_soundbar_status_resume(tr.k, tr.gs_status, res)
        c == get_value_call(t, [tr EXCEPT !.k = g.k, !.gs_status = g.status],
                            get_soundbar_status_calls[g.k].action,
                            get_soundbar_status_calls[g.k].key)
        a == async_update_apply(PyDict(g.status), snap)
    IN  CASE g.kind = "raise" ->
                [task |-> [tr EXCEPT !.pc = "done", !.result = res], out |-> {}, snap |-> snap]
          [] g.kind = "call" ->
                [task |-> c.task, out |-> c.out, snap |-> snap]
          [] OTHER ->
                [task |-> [tr EXCEPT !.pc = "done", !.gs_status = g.status,
                                     !.status = PyDict(g.status), !.result = a.result],
                 out |-> {}, snap |-> a.snap]

\* async_mute_volume is called.
async_mute_volume_start(t, mute, snap) ==
    LET tr == NewTask("async_mute_volume", [NoArg EXCEPT !.mute = mute], snap)
        mute_value == IF mute THEN T_on ELSE T_off
        c == set_value_call(t, tr, T_SetMute, T_mute, PyStr(mute_value))
    IN  [task |-> c.task, out |-> c.out, snap |-> snap]

\* int(volume * 100) for a fraction volume = num/den that is not negative.
int_volume_100(volume) == (volume.num * 100) \div volume.den

\* async_set_volume_level is called.
async_set_volume_level_start(t, volume, snap) ==
    LET tr == NewTask("async_set_volume_level", [NoArg EXCEPT !.volume = volume], snap)
        volume_level == int_volume_100(volume)
        c == set_value_call(t, tr, T_SetVolume, T_volume, PyInt(volume_level))
    IN  [task |-> c.task, out |-> c.out, snap |-> snap]

\* async_mute_volume and async_set_volume_level as they would be if a call
\* that succeeded stored what it had set in the entity.
set_resume_store(t, tr, snap, res) ==
    [task |-> [tr EXCEPT !.pc = "done",
                         !.result = IF res.kind = "raise" THEN res ELSE Return(PyNone)],
     out |-> {},
     snap |-> CASE res.kind = "raise" -> snap
                [] tr.op = "async_mute_volume" -> [snap EXCEPT !.is_muted = tr.arg.mute]
                [] OTHER -> [snap EXCEPT !.volume = PyFloat(tr.arg.volume.num, tr.arg.volume.den)]]

\* async_mute_volume and async_set_volume_level as they would be if a call
\* that failed cleared the cached volume.
set_resume_clear(t, tr, snap, res) ==
    [task |-> [tr EXCEPT !.pc = "done",
                         !.result = IF res.kind = "raise" THEN res ELSE Return(PyNone)],
     out |-> {},
     snap |-> IF res.kind = "raise" THEN [snap EXCEPT !.volume = PyNone] ELSE snap]

\* async_mute_volume and async_set_volume_level when set_value ended with
\* res: the value is dropped, an exception goes to the host.
set_resume(t, tr, snap, res) ==
    [task |-> [tr EXCEPT !.pc = "done",
                         !.result = IF res.kind = "raise" THEN res ELSE Return(PyNone)],
     out |-> {}, snap |-> snap]

\* get_value called by the host itself.
get_value_start(t, action, key_to_extract, snap) ==
    LET tr == NewTask("get_value", [NoArg EXCEPT !.action = action, !.key = key_to_extract], snap)
        c == get_value_call(t, tr, action, key_to_extract)
    IN  [task |-> c.task, out |-> c.out, snap |-> snap]

get_value_resume(t, tr, snap, res) ==
    [task |-> [tr EXCEPT !.pc = "done", !.result = res], out |-> {}, snap |-> snap]

\* set_value called by the host itself.
set_value_start(t, action, property_name, value, snap) ==
    LET tr == NewTask("set_value", [NoArg EXCEPT !.action = action,
                                                 !.property_name = property_name,
                                                 !.value = value], snap)
        c == set_value_call(t, tr, action, property_name, value)
    IN  [task |-> c.task, out |-> c.out, snap |-> snap]

\* set_value returns what exec_cmd returned.
set_value_resume(t, tr, snap, res) ==
    [task |-> [tr EXCEPT !.pc = "done", !.result = res], out |-> {}, snap |-> snap]

\* exec_cmd as it would be if it sent a failed request again.
exec_cmd_resume_retry(t, tr, r, o, snap) ==
    LET res == exec_cmd_result(o, r.key)
        tr1 == [tr EXCEPT !.last = o, !.res = res, !.answers = Append(@, o)]
        again == [r EXCEPT !.n = Len(tr.sent) + 1]
    IN  CASE res.kind = "raise" /\ Len(tr.sent) < 4 ->
                [task |-> [tr1 EXCEPT !.sent = Append(@, again)], out |-> {again}, snap |-> snap]
          [] tr.op = "async_update" -> async_update_resume(t, tr1, snap, res)
          [] tr.op = "get_value" -> get_value_resume(t, tr1, snap, res)
          [] tr.op = "set_value" -> set_value_resume(t, tr1, snap, res)
          [] OTHER -> set_resume(t, tr1, snap, res)

\* The answer o to request r of call t has arrived: exec_cmd ends with its
\* value or its exception, and the caller runs on from its await.
exec_cmd_resume(t, tr, r, o, snap) ==
    LET res == exec_cmd_result(o, r.key)
        tr1 == [tr EXCEPT !.last = o, !.res = res, !.answers = Append(@, o)]
        s == CASE tr.op = "async_update" -> async_update_resume(t, tr1, snap, res)
               [] tr.op = "get_value" -> get_value_resume(t, tr1, snap, res)
               [] tr.op = "set_value" -> set_value_resume(t, tr1, snap, res)
               [] OTHER -> set_resume(t, tr1, snap, res)
    IN  [s EXCEPT !.task.snap1 = s.snap]

---------------------------------------------------------------------------
(* The config flow: SoundbarConfigFlow.async_step_user and _test_connection *)
(* of config_flow.py.                                                       *)

CONF_HOST == "host"
CONF_PORT == "port"

\* What a step of the flow hands to the host: a form to show, or an entry
\* to create.
NoResult == [type |-> "none", errors |-> [x \in {} |-> ""], title |-> "", data |-> PyNone]
async_show_form(errors) == [type |-> "form", errors |-> errors, title |-> "", data |-> PyNone]
async_create_entry(title, data) ==
    [type |-> "create_entry", errors |-> [x \in {} |-> ""], title |-> title, data |-> data]

\* The flow before its first step.  pc is where async_step_user stands,
\* user_input its argument, url the URL of the probe, probe the answer to
\* it, result what the latest step returned, tries the submissions so far.
NewFlow ==
    [pc |-> "start", user_input |-> PyNone, url |-> <<>>, probe |-> NoOutcome,
     result |-> NoResult, tries |-> 0]

\* _test_connection, up to the request: f"http://{ip_address}:{port}/test"
_test_connection_url(ip_address, port) ==
    <<"h", "t", "t", "p", ":", "/", "/">> \o Format(ip_address) \o <<":">> \o Format(port)
    \o <<"/", "t", "e", "s", "t">>

\* _test_connection as it would be without raise_for_status.
_test_connection_result_any(o) == o.kind = "response"

\* _test_connection from the answer on: True unless session.get or
\* raise_for_status raised.
_test_connection_result(o) == o.kind = "response" /\ o.status < 400

\* async_step_user(None): the form, without errors.
async_step_user_none(fl) ==
    [fl EXCEPT !.pc = "form", !.result = async_show_form([x \in {} |-> ""])]

\* async_step_user(user_input) up to the probe it waits for.
async_step_user_start(fl, user_input) ==
    LET ip_address == user_input.v[CONF_HOST]
        port == IF CONF_PORT \in DOMAIN user_input.v THEN user_input.v[CONF_PORT] ELSE PyInt(DEFAULT_PORT)
    IN  [fl EXCEPT !.pc = "probe", !.user_input = user_input,
                   !.url = _test_connection_url(ip_address, port),
                   !.probe = NoOutcome, !.tries = @ + 1]

\* async_step_user when the probe was answered with o.
async_step_user_resume(fl, o) ==
    IF _test_connection_result(o)
    THEN [fl EXCEPT !.pc = "done", !.probe = o,
                    !.result = async_create_entry("Soundbar", fl.user_input)]
    ELSE [fl EXCEPT !.pc = "form", !.probe = o,
                    !.result = async_show_form("base" :> "cannot_connect")]

---------------------------------------------------------------------------
(* The entry lifecycle: async_setup, async_setup_entry, async_unload_entry  *)
(* of __init__.py.  hass.data and the dicts in it are functions; a config   *)
(* entry is [data, update_listeners, state], state being the host's: an     *)
(* entry is set up when not loaded, unloaded when loaded, and left alone    *)
(* once its unload has raised.                                              *)

DOMAIN_KEY == "DOMAIN"
UNSUB_KEY == "unsub_options_update_listener"

NoData == [x \in {} |-> PyNone]
NewEntry == [data |-> NoData, update_listeners |-> {}, state |-> "not_loaded"]
NoCall == [op |-> "none", entry_id |-> 0, unload_ok |-> FALSE, result |-> Pending]

\* The handle add_update_listener returns: calling it removes listener n of
\* the entry.
Handle(entry_id, n) == [t |-> "handle", v |-> [entry_id |-> entry_id, n |-> n]]

\* d.setdefault(k, {})
SetDefault(d, k) == IF k \in DOMAIN d THEN d ELSE (k :> NoData) @@ d

\* async_setup
async_setup(hd) == [hass_data |-> SetDefault(hd, DOMAIN_KEY), result |-> Return(PyBool(TRUE))]

\* async_setup_entry: the handle goes to hass.data itself, the copy of the
\* entry's data to hass.data[DOMAIN][entry_id].
async_setup_entry(hd, ce, entry_id) ==
    LET hd1 == SetDefault(hd, DOMAIN_KEY)
        hass_data_ == ce[entry_id].data
        n == CHOOSE i \in 1..(Cardinality(ce[entry_id].update_listeners) + 1) :
                    i \notin ce[entry_id].update_listeners
        unsub_options_update_listener == Handle(entry_id, n)
        hd2 == (UNSUB_KEY :> unsub_options_update_listener) @@ hd1
        hd3 == [hd2 EXCEPT ![DOMAIN_KEY] = (entry_id :> hass_data_) @@ @]
    IN  [hass_data |-> hd3,
         config_entries |-> [ce EXCEPT ![entry_id].update_listeners = @ \cup {n}],
         result |-> Return(PyBool(TRUE))]

\* async_unload_entry after the platform unload gave unload_ok: the lookup
\* hass.data[DOMAIN][entry_id]["unsub_options_update_listener"], the call
\* of what it finds, the pop.
async_unload_entry(hd, ce, entry_id, unload_ok) ==
    LET same == [hass_data |-> hd, config_entries |-> ce]
        d == hd[DOMAIN_KEY][entry_id]
        h == d[UNSUB_KEY]
    IN  CASE DOMAIN_KEY \notin DOMAIN hd -> same @@ [result |-> Raise("KeyError")]
          [] entry_id \notin DOMAIN hd[DOMAIN_KEY] -> same @@ [result |-> Raise("KeyError")]
          [] UNSUB_KEY \notin DOMAIN d -> same @@ [result |-> Raise("KeyError")]
          [] h.t # "handle" -> same @@ [result |-> Raise("TypeError")]
          [] h.v.n \notin ce[h.v.entry_id].update_listeners -> same @@ [result |-> Raise("ValueError")]
          [] OTHER ->
                [hass_data |-> IF unload_ok
                               THEN [hd EXCEPT ![DOMAIN_KEY] =
                                        [k \in (DOMAIN @) \ {entry_id} |-> @[k]]]
                               ELSE hd,
                 config_entries |-> [ce EXCEPT ![h.v.entry_id].update_listeners = @ \ {h.v.n}],
                 result |-> Return(PyBool(unload_ok))]

---------------------------------------------------------------------------
(* Inputs: what the host passes and what the device answers. *)

Tasks == 1..NumTasks

Mutes == BOOLEAN

\* Volume fractions the host sets: 0, 3/8, 1/2 and 1.
Volumes == { [num |-> 0, den |-> 1], [num |-> 3, den |-> 8],
             [num |-> 1, den |-> 2], [num |-> 1, den |-> 1] }

Field(name, text) == Elem(name, text, <<>>)

\* <UIC><response>fields</response></UIC>
Envelope(fields) == Xml(Elem(T_UIC, <<>>, <<Elem(T_response, <<>>, fields)>>))

\* The canned response of the specification's round trip.
CannedBody == Envelope(<<Field(T_power, T_on), Field(T_volume, <<"3", "7">>), Field(T_mute, T_off)>>)

\* Envelopes holding one field; to a request for another key the field is absent.
FieldBodies ==
    { Envelope(<<Field(T_power, v)>>) : v \in {T_on, T_off} }
    \cup { Envelope(<<Field(T_volume, v)>>) : v \in {<<"0">>, <<"3", "7">>, <<"1", "0", "0">>, <<"x">>} }
    \cup { Envelope(<<Field(T_mute, v)>>) : v \in {T_on, T_off} }

\* Well-formed XML without the envelope: another root, an empty UIC, a UIC
\* of text only, a UIC without a response child.
NoUicBody == Xml(Elem(<<"h", "t", "m", "l">>, <<"x">>, <<>>))
EmptyUicBody == Xml(Elem(T_UIC, <<>>, <<>>))
TextUicBody == Xml(Elem(T_UIC, <<"x">>, <<>>))
NoResponseBody == Xml(Elem(T_UIC, <<>>, <<Field(<<"e", "r", "r", "o", "r">>, <<"x">>)>>))
MissingEnvelopeBodies == {NoUicBody, EmptyUicBody, TextUicBody, NoResponseBody}

\* <UIC><response/></UIC>: the envelope with nothing in it.
EmptyResponseBody == Envelope(<<>>)

Bodies == {CannedBody, NotXml, EmptyResponseBody} \cup FieldBodies \cup MissingEnvelopeBodies

Outcomes ==
    {Timeout, ConnectError, HttpResponse(500, NotXml), HttpResponse(404, CannedBody)}
    \cup { HttpResponse(200, b) : b \in Bodies }

\* A second full status: power off, volume 100, muted.
OtherBody == Envelope(<<Field(T_power, T_off), Field(T_volume, <<"1", "0", "0">>), Field(T_mute, T_on)>>)

\* The answers of the specification of refreshes that follow each other.
RefreshOutcomes == {Timeout, HttpResponse(200, CannedBody), HttpResponse(200, OtherBody)}

\* The intents of the interleaving specification.
ConcMutes == {TRUE}
ConcVolumes == {[num |-> 1, den |-> 2]}

\* The two answers of the specifications that vary something else: the
\* interleaving of calls, the action text.
BasicOutcomes == {Timeout, HttpResponse(200, CannedBody)}

\* The action texts of the get_value specification: every text over these
\* characters up to MaxLen.
ActionChars == {"G", "%", "4", "1", "<", "/", " "}

RECURSIVE Texts(_)
Texts(n) ==
    IF n = 0 THEN {<<>>}
    ELSE Texts(n - 1) \cup { <<c>> \o s : c \in ActionChars, s \in { x \in Texts(n - 1) : Len(x) = n - 1 } }

Actions == Texts(MaxLen)
Keys == {T_power, T_mute}

\* What the host hands to set_value: actions, properties, and values of
\* every type: texts (one of digits), integers, floats (1/2, 3/8, 37.0),
\* booleans, None.
SetActions == {T_SetMute, T_SetVolume}
SetProperties == {T_mute, T_volume}
SetValues ==
    { PyStr(T_on), PyStr(<<>>), PyStr(<<"3", "7">>),
      PyInt(0), PyInt(37),
      PyFloat(1, 2), PyFloat(3, 8), PyFloat(37, 1),
      PyBool(TRUE), PyBool(FALSE), PyNone }

\* The answers of the set_value specification: the response may hold the
\* property or not.
SetOutcomes == BasicOutcomes \cup {HttpResponse(200, Envelope(<<Field(T_mute, T_on)>>))}

\* What the user submits to the config flow: a host, with or without a port.
FlowHosts == {Host, <<"1", ".", "2">>}
FlowPorts == {PyInt(DEFAULT_PORT), PyInt(8080)}
UserInputs ==
    { PyDict(CONF_HOST :> PyStr(h)) : h \in FlowHosts }
    \cup { PyDict((CONF_HOST :> PyStr(h)) @@ (CONF_PORT :> p)) : h \in FlowHosts, p \in FlowPorts }

\* The answers to the probe.
ProbeOutcomes ==
    { Timeout, ConnectError, HttpResponse(200, NotXml), HttpResponse(204, NotXml),
      HttpResponse(404, NotXml), HttpResponse(500, NotXml) }

\* The config entries of the host, and the data an entry holds: what the
\* config flow created it with.
EntryIds == 1..NumEntries
EntryData == { u.v : u \in UserInputs }

---------------------------------------------------------------------------
(* The state machine. *)

Init ==
    /\ _state = InitSnap.state
    /\ _volume = InitSnap.volume
    /\ _is_muted = InitSnap.is_muted
    /\ task = [t \in Tasks |-> NewTask("idle", NoArg, InitSnap)]
    /\ inflight = {}
    /\ refreshed = FALSE
    /\ flow = NewFlow
    /\ hass_data = NoData
    /\ config_entries = [e \in EntryIds |-> NewEntry]
    /\ host_call = NoCall

\* Step s of call t takes effect; the requests in answered are over.
Apply(t, s, answered) ==
    /\ task' = [task EXCEPT ![t] = s.task]
    /\ inflight' = (inflight \ answered) \cup s.out
    /\ _state' = s.snap.state
    /\ _volume' = s.snap.volume
    /\ _is_muted' = s.snap.is_muted
    /\ refreshed' = (refreshed \/ (s.task.op = "async_update" /\ s.task.pc = "done"
                                     /\ s.task.result.kind = "return"))
    /\ UNCHANGED <<flow, hass_vars>>

\* The host polls the entity.
Call_async_update(t) ==
    /\ task[t].pc # "await"
    /\ Apply(t, async_update_start(t, Snap), {})

\* The host delivers a mute intent.
Call_async_mute_volume(t, mute) ==
    /\ task[t].pc # "await"
    /\ Apply(t, async_mute_volume_start(t, mute, Snap), {})

\* The host delivers a volume intent.
Call_async_set_volume_level(t, volume) ==
    /\ task[t].pc # "await"
    /\ Apply(t, async_set_volume_level_start(t, volume, Snap), {})

\* The host calls the client's get_value with the arguments of slot t.
Call_get_value(t) ==
    /\ task[t].op = "get_value"
    /\ task[t].pc = "idle"
    /\ Apply(t, get_value_start(t, task[t].arg.action, task[t].arg.key, Snap), {})

\* A request of call t is answered with o and the call runs on.
Response(t, o) ==
    /\ task[t].pc = "await"
    /\ \E r \in inflight :
          /\ r.task = t
          /\ Apply(t, exec_cmd_resume(t, task[t], r, o, Snap), {r})

\* One call at a time, every answer of the device.
Next ==
    \/ Call_async_update(1)
    \/ \E mute \in Mutes : Call_async_mute_volume(1, mute)
    \/ \E volume \in Volumes : Call_async_set_volume_level(1, volume)
    \/ \E o \in Outcomes : Response(1, o)

Spec == Init /\ [][Next]_vars

\* Calls of the host overlapping in every way.
NextConc ==
    \E t \in Tasks :
        \/ Call_async_update(t)
        \/ \E mute \in ConcMutes : Call_async_mute_volume(t, mute)
        \/ \E volume \in ConcVolumes : Call_async_set_volume_level(t, volume)
        \/ \E o \in BasicOutcomes : Response(t, o)

SpecConc == Init /\ [][NextConc]_vars

\* get_value on every action text and key: the arguments are drawn at the start.
InitGetValue ==
    /\ _state = InitSnap.state
    /\ _volume = InitSnap.volume
    /\ _is_muted = InitSnap.is_muted
    /\ \E action \in Actions, key \in Keys :
          task = [t \in Tasks |->
                    IF t = 1
                    THEN NewTask("get_value", [NoArg EXCEPT !.action = action, !.key = key], InitSnap)
                    ELSE NewTask("idle", NoArg, InitSnap)]
    /\ inflight = {}
    /\ refreshed = FALSE
    /\ flow = NewFlow
    /\ hass_data = NoData
    /\ config_entries = [e \in EntryIds |-> NewEntry]
    /\ host_call = NoCall

NextGetValue ==
    \/ Call_get_value(1)
    \/ \E o \in BasicOutcomes : Response(1, o)

SpecGetValue == InitGetValue /\ [][NextGetValue]_vars

\* Refreshes one after the other, kept in two slots so that a refresh can
\* be compared with the one before it: a refresh begins in either slot when
\* no call is running.
FirstTwo == {1, 2}

NextRefresh ==
    \E t \in FirstTwo :
        \/ /\ \A u \in Tasks : task[u].pc # "await"
           /\ Call_async_update(t)
        \/ \E o \in RefreshOutcomes : Response(t, o)

SpecRefresh == Init /\ [][NextRefresh]_vars

\* The host starts the config flow: async_step_user without input.
Call_async_step_user_none ==
    /\ flow.pc = "start"
    /\ flow' = async_step_user_none(flow)
    /\ UNCHANGED <<entity_vars, hass_vars>>

\* The user submits the form: async_step_user runs to the probe.
Call_async_step_user(user_input) ==
    /\ flow.pc = "form"
    /\ flow.tries < MaxTries
    /\ flow' = async_step_user_start(flow, user_input)
    /\ UNCHANGED <<entity_vars, hass_vars>>

\* The probe is answered with o and async_step_user runs on.
ProbeResponse(o) ==
    /\ flow.pc = "probe"
    /\ flow' = async_step_user_resume(flow, o)
    /\ UNCHANGED <<entity_vars, hass_vars>>

NextFlow ==
    \/ Call_async_step_user_none
    \/ \E user_input \in UserInputs : Call_async_step_user(user_input)
    \/ \E o \in ProbeOutcomes : ProbeResponse(o)

SpecFlow == Init /\ [][NextFlow]_vars

\* The host sets the component up.
Call_async_setup ==
    /\ host_call.op = "none"
    /\ LET r == async_setup(hass_data)
       IN  /\ hass_data' = r.hass_data
           /\ host_call' = [op |-> "async_setup", entry_id |-> 0, unload_ok |-> FALSE,
                            result |-> r.result]
    /\ UNCHANGED <<entity_vars, flow, config_entries>>

\* The host sets up an entry that is not loaded; the entry holds data.
Call_async_setup_entry(entry_id, data) ==
    /\ config_entries[entry_id].state = "not_loaded"
    /\ LET ce == [config_entries EXCEPT ![entry_id].data = data]
           r == async_setup_entry(hass_data, ce, entry_id)
       IN  /\ hass_data' = r.hass_data
           /\ config_entries' = [r.config_entries EXCEPT ![entry_id].state = "loaded"]
           /\ host_call' = [op |-> "async_setup_entry", entry_id |-> entry_id,
                            unload_ok |-> FALSE, result |-> r.result]
    /\ UNCHANGED <<entity_vars, flow>>

\* The host unloads a loaded entry; the platform unload gives unload_ok.
Call_async_unload_entry(entry_id, unload_ok) ==
    /\ config_entries[entry_id].state = "loaded"
    /\ LET r == async_unload_entry(hass_data, config_entries, entry_id, unload_ok)
       IN  /\ hass_data' = r.hass_data
           /\ config_entries' =
                  [r.config_entries EXCEPT ![entry_id].state =
                      CASE r.result.kind = "raise" -> "failed_unload"
                        [] r.result.val.v -> "not_loaded"
                        [] OTHER -> "loaded"]
           /\ host_call' = [op |-> "async_unload_entry", entry_id |-> entry_id,
                            unload_ok |-> unload_ok, result |-> r.result]
    /\ UNCHANGED <<entity_vars, flow>>

NextLifecycle ==
    \/ Call_async_setup
    \/ \E entry_id \in EntryIds, data \in EntryData : Call_async_setup_entry(entry_id, data)
    \/ \E entry_id \in EntryIds, unload_ok \in BOOLEAN : Call_async_unload_entry(entry_id, unload_ok)

SpecLifecycle == Init /\ [][NextLifecycle]_vars

\* The host calls the client's set_value with the arguments of slot t.
Call_set_value(t) ==
    /\ task[t].op = "set_value"
    /\ task[t].pc = "idle"
    /\ Apply(t, set_value_start(t, task[t].arg.action, task[t].arg.property_name,
                                task[t].arg.value, Snap), {})

\* set_value on every action, property and value: the arguments are drawn
\* at the start.
InitSetValue ==
    /\ _state = InitSnap.state
    /\ _volume = InitSnap.volume
    /\ _is_muted = InitSnap.is_muted
    /\ \E action \in SetActions, property_name \in SetProperties, value \in SetValues :
          task = [t \in Tasks |->
                    IF t = 1
                    THEN NewTask("set_value", [NoArg EXCEPT !.action = action,
                                                            !.property_name = property_name,
                                                            !.value = value], InitSnap)
                    ELSE NewTask("idle", NoArg, InitSnap)]
    /\ inflight = {}
    /\ refreshed = FALSE
    /\ flow = NewFlow
    /\ hass_data = NoData
    /\ config_entries = [e \in EntryIds |-> NewEntry]
    /\ host_call = NoCall

NextSetValue ==
    \/ Call_set_value(1)
    \/ \E o \in SetOutcomes : Response(1, o)

SpecSetValue == InitSetValue /\ [][NextSetValue]_vars

---------------------------------------------------------------------------
(* Reading a request back: the endpoint of its URL and the command its cmd  *)
(* parameter URL-decodes to (urllib.parse.unquote).                         *)

IsHex(c) == \E i \in 1..Len(HexDigits) : HexDigits[i] = c
HexVal(c) == (CHOOSE i \in 1..Len(HexDigits) : HexDigits[i] = c) - 1

RECURSIVE unquote(_)
unquote(s) ==
    IF s = <<>> THEN <<>>
    ELSE IF /\ s[1] = "%"
            /\ Len(s) >= 3
            /\ IsHex(s[2])
            /\ IsHex(s[3])
            /\ 16 * HexVal(s[2]) + HexVal(s[3]) \in 32..126
         THEN <<Chr(16 * HexVal(s[2]) + HexVal(s[3]))>> \o unquote(SubSeq(s, 4, Len(s)))
         ELSE <<s[1]>> \o unquote(Tail(s))

QueryStart(url) == CHOOSE i \in 1..Len(url) : url[i] = "?" /\ \A j \in 1..(i - 1) : url[j] # "?"
EndpointOf(url) == SubSeq(url, 1, QueryStart(url) - 1)
QueryOf(url) == SubSeq(url, QueryStart(url) + 1, Len(url))
\* The decoded cmd parameter of a query that is cmd=... and nothing else.
CmdOf(url) == unquote(SubSeq(QueryOf(url), 5, Len(QueryOf(url))))
HasCmdOnly(url) ==
    /\ SubSeq(QueryOf(url), 1, 4) = <<"c", "m", "d", "=">>
    /\ \A i \in 1..Len(QueryOf(url)) : QueryOf(url)[i] # "&"

\* How an answer fails, as the specification names the failures.
IsTransportFailure(o) == o.kind = "connect_error" \/ (o.kind = "response" /\ o.status >= 400)
IsTimeout(o) == o.kind = "timeout"
IsUnparsable(o) == o.kind = "response" /\ o.status < 400 /\ ~o.body.wellformed
RequestFailed(o) == IsTransportFailure(o) \/ IsTimeout(o) \/ IsUnparsable(o)

\* The error of a failed answer.
ErrorOf(o) ==
    CASE o.kind = "timeout" -> "TimeoutError"
      [] o.kind = "connect_error" -> "ClientConnectionError"
      [] o.kind = "response" /\ o.status >= 400 -> "ClientResponseError"
      [] OTHER -> "ExpatError"

Refreshing(t) == task[t].op = "async_update"
RefreshEnded(t) == task[t].op = "async_update" /\ task[t].pc = "done"

---------------------------------------------------------------------------
(* The claims. *)

\* C1: when one of the three get requests of a refresh fails (timeout,
\* transport error, unparsable body), the refresh ends with that very error
\* and the cached state, volume and muted are what they were when the
\* refresh began.
C1_FailedRequestKeepsSnapshot ==
    \A t \in Tasks :
        (RefreshEnded(t) /\ RequestFailed(task[t].last)) =>
            /\ task[t].result = Raise(ErrorOf(task[t].last))
            /\ Snap = task[t].snap0

\* C1 witness: a refresh whose second request timed out, begun on a snapshot
\* that an earlier refresh had filled, has ended.
C1_Witness ==
    /\ RefreshEnded(1)
    /\ task[1].last = Timeout
    /\ Len(task[1].sent) = 2
    /\ task[1].snap0.volume.t = "float"
    /\ task[1].snap0.is_muted
    /\ task[1].result = Raise("TimeoutError")

\* C2: a refresh that ended has either succeeded and replaced state, volume
\* and muted from the status it fetched, or failed, for whatever reason, and
\* left all three as they were when it began.
C2_AllOrNothing ==
    \A t \in Tasks :
        RefreshEnded(t) =>
            IF task[t].result.kind = "return"
            THEN /\ _is_muted = PyEqStr(task[t].status.v[T_mute], T_on)
                 /\ _state = (IF PyEqStr(task[t].status.v[T_power], T_off) THEN STATE_OFF ELSE STATE_ON)
                 /\ _volume.t = "float"
                 /\ _volume.v.num = DecimalVal(task[t].status.v[T_volume].v)
                 /\ _volume.v.den = 100
            ELSE Snap = task[t].snap0

\* C3: a refresh whose fetched status has no mute value (the response lacked
\* the field and get_value returned None) ends in an error.
C3_AbsentMuteFails ==
    \A t \in Tasks :
        (RefreshEnded(t) /\ task[t].status.t = "dict" /\ task[t].status.v[T_mute].t = "None") =>
            task[t].result.kind = "raise"

\* C4: a refresh whose status fetch succeeded has issued exactly three
\* requests, for power, volume and mute in this order, whose cmd parameters
\* decode to <name>GetPowerStatus</name>, <name>GetVolume</name> and
\* <name>GetMute</name>, and holds a status with exactly these three keys.
C4_StatusRequests ==
    \A t \in Tasks :
        (Refreshing(t) /\ task[t].status.t = "dict") =>
            /\ Len(task[t].sent) = 3
            /\ \A i \in 1..3 : HasCmdOnly(task[t].sent[i].url)
            /\ CmdOf(task[t].sent[1].url) = T_name_open \o T_GetPowerStatus \o T_name_close
            /\ CmdOf(task[t].sent[2].url) = T_name_open \o T_GetVolume \o T_name_close
            /\ CmdOf(task[t].sent[3].url) = T_name_open \o T_GetMute \o T_name_close
            /\ <<task[t].sent[1].key, task[t].sent[2].key, task[t].sent[3].key>> = <<T_power, T_volume, T_mute>>
            /\ DOMAIN task[t].status.v = {T_power, T_volume, T_mute}
            /\ task[t].status.v[T_mute] = task[t].res.val

\* The requests of call t that are in flight.
InFlightOf(t) == {r \in inflight : r.task = t}

\* C5, as claimed: never two requests to the device outstanding at once,
\* however the host's calls interleave.
C5_OneInFlight == Cardinality(inflight) <= 1

\* C5, amended: each running call has at most one request outstanding, and
\* has one exactly while it waits; calls running at the same time may each
\* have theirs.
C5_OnePerCall ==
    \A t \in Tasks :
        /\ Cardinality(InFlightOf(t)) <= 1
        /\ (Cardinality(InFlightOf(t)) = 1) <=> (task[t].pc = "await")

\* C5 witness: a refresh waits for its second answer while a mute call waits
\* for its own.
C5_Witness ==
    /\ task[1].op = "async_update" /\ task[1].pc = "await" /\ task[1].k = 2
    /\ task[2].op = "async_mute_volume" /\ task[2].pc = "await"
    /\ Cardinality(InFlightOf(1)) = 1
    /\ Cardinality(InFlightOf(2)) = 1

\* The keys of the first n calls of get_soundbar_status.
StatusKeys(n) == {get_soundbar_status_calls[i].key : i \in 1..n}

\* C6: the requests of a status fetch go out one after the other in the
\* order power, volume, mute, each only when all before it were answered
\* with success; once an answer fails no request is outstanding or issued
\* and no status, not even a partial one, reaches async_update.
C6_SequentialAbort ==
    \A t \in Tasks :
        Refreshing(t) =>
            LET n == Len(task[t].sent)
            IN  /\ n \in 1..Len(get_soundbar_status_calls)
                /\ \A i \in 1..n : task[t].sent[i].key = get_soundbar_status_calls[i].key
                /\ InFlightOf(t) \subseteq {task[t].sent[n]}
                /\ task[t].pc = "await" =>
                        /\ task[t].res.kind # "raise"
                        /\ DOMAIN task[t].gs_status = StatusKeys(n - 1)
                /\ task[t].res.kind = "raise" =>
                        /\ task[t].pc = "done"
                        /\ InFlightOf(t) = {}
                        /\ task[t].status = PyNone
                        /\ task[t].result.kind = "raise"
                        /\ DOMAIN task[t].gs_status = StatusKeys(n - 1)
                /\ task[t].status.t = "dict" =>
                        /\ n = Len(get_soundbar_status_calls)
                        /\ DOMAIN task[t].status.v = StatusKeys(n)

\* C6 witness: a status fetch whose second request failed has ended after
\* two requests, with the power value fetched and no status returned.
C6_Witness ==
    /\ RefreshEnded(1)
    /\ Len(task[1].sent) = 2
    /\ task[1].res.kind = "raise"
    /\ DOMAIN task[1].gs_status = {T_power}
    /\ task[1].status = PyNone

\* C7: every call of exec_cmd issues one GET: a call has sent as many
\* requests as it made exec_cmd calls, one for a mute or volume call and at
\* most three for a refresh, no URL twice; after a failed answer the call
\* is over with nothing outstanding.
C7_NoRetry ==
    \A t \in Tasks :
        task[t].pc # "idle" =>
            /\ Len(task[t].sent) = task[t].execs
            /\ task[t].op \in {"async_mute_volume", "async_set_volume_level", "get_value"} =>
                    Len(task[t].sent) = 1
            /\ task[t].op = "async_update" => Len(task[t].sent) \in 1..3
            /\ \A i, j \in 1..Len(task[t].sent) :
                    task[t].sent[i].url = task[t].sent[j].url => i = j
            /\ task[t].res.kind = "raise" => (task[t].pc = "done" /\ InFlightOf(t) = {})

\* C7 witness: a volume call whose one request timed out has ended with
\* the error after that one request.
C7_Witness ==
    /\ task[1].op = "async_set_volume_level"
    /\ task[1].pc = "done"
    /\ task[1].last = Timeout
    /\ task[1].result = Raise("TimeoutError")
    /\ Len(task[1].sent) = 1

\* A well-formed answer without the envelope: the root is not UIC, or UIC
\* has no response child.
HasEnvelope(body) ==
    /\ body.wellformed
    /\ body.root.tag = T_UIC
    /\ \E i \in 1..Len(body.root.children) : body.root.children[i].tag = T_response
MissingEnvelope(o) ==
    o.kind = "response" /\ o.status < 400 /\ o.body.wellformed /\ ~HasEnvelope(o.body)

C9_FailuresPropagate ==
    \A t \in Tasks :
        LET o == task[t].last
        IN  /\ (o.kind = "response" /\ o.status >= 400) =>
                    (task[t].res.kind = "raise" /\ IsClientError(task[t].res.exc))
            /\ IsTimeout(o) => task[t].res = Raise("TimeoutError")
            /\ IsUnparsable(o) => task[t].res = Raise("ExpatError")
            /\ RequestFailed(o) =>
                    /\ task[t].res.kind = "raise"
                    /\ task[t].res.val = PyNone
                    /\ task[t].pc = "done"
                    /\ task[t].result = task[t].res

\* C9 witness: a refresh whose request was answered with HTTP 500 has
\* ended with the ClientResponseError.
C9_Witness ==
    /\ RefreshEnded(1)
    /\ task[1].last = HttpResponse(500, NotXml)
    /\ task[1].result = Raise("ClientResponseError")

\* C10: get_value(action, key) issues one request, to the client's
\* endpoint, whose only parameter cmd decodes to <name>action</name>, and
\* extracts key from the answer.
C10_GetValueRequest ==
    \A t \in Tasks :
        (task[t].op = "get_value" /\ task[t].pc # "idle") =>
            /\ Len(task[t].sent) = 1
            /\ task[t].execs = 1
            /\ EndpointOf(task[t].sent[1].url) = self_endpoint
            /\ HasCmdOnly(task[t].sent[1].url)
            /\ CmdOf(task[t].sent[1].url) = T_name_open \o task[t].arg.action \o T_name_close
            /\ task[t].sent[1].key = task[t].arg.key
            /\ InFlightOf(t) \subseteq {task[t].sent[1]}

\* C10 witness: get_value was called with an action text that holds an
\* escape sequence and a markup character, and has ended.
C10_Witness ==
    /\ task[1].op = "get_value"
    /\ task[1].pc = "done"
    /\ task[1].arg.action = <<"%", "4", "<">>
    /\ Len(task[1].sent) = 1

\* A numeric value: an integer or a fractional number.
IsNumeric(x) == x.t \in {"int", "float"}

\* The command the specification describes for setValue(action, prop, v).
SetCommandText(action, prop, v) ==
    T_name_open \o action \o T_name_close
    \o <<"<", "p", " ", "t", "y", "p", "e", "=", "\"">> \o (IF IsNumeric(v) THEN T_dec ELSE T_str)
    \o <<"\"", " ", "n", "a", "m", "e", "=", "\"">> \o prop
    \o <<"\"", " ", "v", "a", "l", "=", "\"">> \o Format(v)
    \o <<"\"", "/", ">">>

\* C11: for every value v (text, integer, fractional number, boolean, None)
\* set_value(action, prop, v) issues one request whose cmd decodes to a
\* command with type dec if and only if v is numeric and str otherwise, prop
\* as name and v as val, and returns what the response holds under prop.
C11_SetValueCommand ==
    \A t \in Tasks :
        (task[t].op = "set_value" /\ task[t].pc # "idle") =>
            /\ Len(task[t].sent) = 1
            /\ HasCmdOnly(task[t].sent[1].url)
            /\ CmdOf(task[t].sent[1].url) =
                    SetCommandText(task[t].arg.action, task[t].arg.property_name, task[t].arg.value)
            /\ task[t].sent[1].key = task[t].arg.property_name
            /\ task[t].pc = "done" => task[t].result = task[t].res

\* The fraction num/den of a cached volume equals n/100.
IsHundredth(x, n) == x.t = "float" /\ x.v.den > 0 /\ x.v.num * 100 = n * x.v.den

\* A refresh of call t has succeeded on a status whose volume is a decimal
\* text in 0..100.
RefreshSucceeded(t) ==
    /\ RefreshEnded(t)
    /\ task[t].result = Return(PyNone)
    /\ task[t].status.t = "dict"
    /\ task[t].status.v[T_volume].t = "str"
    /\ IsDecimal(task[t].status.v[T_volume].v)
    /\ DecimalVal(task[t].status.v[T_volume].v) \in 0..100

\* C12: after a successful refresh on a status (power p, volume v, mute m),
\* v a decimal text in 0..100, the cached state is off if p is "off" and on
\* otherwise, the cached volume is v/100 ("0" gives 0.0, "37" gives 0.37,
\* "100" gives 1.0) and the entity is muted if and only if m is "on".
C12_RefreshDerives ==
    \A t \in Tasks :
        RefreshSucceeded(t) =>
            LET p == task[t].status.v[T_power]
                v == task[t].status.v[T_volume]
                m == task[t].status.v[T_mute]
            IN  /\ _state = (IF p = PyStr(T_off) THEN STATE_OFF ELSE STATE_ON)
                /\ IsHundredth(_volume, DecimalVal(v.v))
                /\ v.v = <<"0">> => _volume.v.num = 0
                /\ v.v = <<"3", "7">> => _volume.v.num * 100 = 37 * _volume.v.den
                /\ v.v = <<"1", "0", "0">> => _volume.v.num = _volume.v.den
                /\ _is_muted = (m = PyStr(T_on))

\* C12 witness: a refresh succeeded on power "off", volume "100", mute "on"
\* and left state off, volume 1.0, muted.
C12_Witness ==
    /\ RefreshSucceeded(1)
    /\ task[1].status.v[T_power] = PyStr(T_off)
    /\ task[1].status.v[T_volume] = PyStr(<<"1", "0", "0">>)
    /\ task[1].status.v[T_mute] = PyStr(T_on)
    /\ _state = STATE_OFF
    /\ _volume.v.num = _volume.v.den
    /\ _is_muted

\* Call t is a mute or a volume call.
Setting(t) == task[t].op \in {"async_mute_volume", "async_set_volume_level"}

\* C13: a mute or volume call never changes the cached state, volume and
\* muted, whether its request is outstanding, succeeded or failed and
\* whatever the device answered; the snapshot changes only in a step that
\* ends a refresh; a mute call sends SetMute with property mute and the
\* text "on" when asked to mute, "off" otherwise.
C13_SetKeepsSnapshot ==
    /\ [](\A t \in Tasks :
            /\ Setting(t) => Snap = task[t].snap0
            /\ task[t].op = "async_mute_volume" =>
                    /\ Len(task[t].sent) = 1
                    /\ HasCmdOnly(task[t].sent[1].url)
                    /\ CmdOf(task[t].sent[1].url) =
                            SetCommandText(T_SetMute, T_mute,
                                           PyStr(IF task[t].arg.mute THEN T_on ELSE T_off)))
    /\ [][Snap' # Snap =>
                \E t \in Tasks : Refreshing(t) /\ task[t].pc = "await" /\ RefreshEnded(t)']_vars

\* C13 witness: on a snapshot a refresh had filled with muted false, a call
\* to mute was answered with mute "on" and ended with success; the cached
\* muted is still false.
C13_Witness ==
    /\ task[1].op = "async_mute_volume"
    /\ task[1].pc = "done"
    /\ task[1].arg.mute
    /\ task[1].last = HttpResponse(200, Envelope(<<Field(T_mute, T_on)>>))
    /\ task[1].result = Return(PyNone)
    /\ _volume.t = "float"
    /\ ~_is_muted

\* round(num/den) of Python for a quotient that is not negative: to the
\* nearest integer, a tie to the even one.
round_(num, den) ==
    LET q == num \div den
        r == num % den
    IN  CASE 2 * r < den -> q
          [] 2 * r > den -> q + 1
          [] OTHER -> IF q % 2 = 0 THEN q ELSE q + 1

\* C14: a volume call with fraction f in 0.0..1.0 sends one command,
\* SetVolume with property volume and type dec, whose value is the integer
\* round(f * 100), within 0..100; for f = 1.0 the value is 100.
C14_SetVolumeRounds ==
    \A t \in Tasks :
        task[t].op = "async_set_volume_level" =>
            LET f == task[t].arg.volume
                n == round_(f.num * 100, f.den)
            IN  /\ Len(task[t].sent) = 1
                /\ HasCmdOnly(task[t].sent[1].url)
                /\ n \in 0..100
                /\ CmdOf(task[t].sent[1].url) = SetCommandText(T_SetVolume, T_volume, PyInt(n))
                /\ f.num = f.den =>
                        CmdOf(task[t].sent[1].url) = SetCommandText(T_SetVolume, T_volume, PyInt(100))

\* The response element of an answer that has the envelope, and the key the
\* answered request of call t asked for.
ResponseElem(body) ==
    body.root.children[CHOOSE i \in 1..Len(body.root.children) : body.root.children[i].tag = T_response]
AnsweredKey(t) ==
    task[t].sent[IF task[t].pc = "await" THEN Len(task[t].sent) - 1 ELSE Len(task[t].sent)].key
HasField(e, key) == \E i \in 1..Len(e.children) : e.children[i].tag = key
FieldText(e, key) == e.children[CHOOSE i \in 1..Len(e.children) : e.children[i].tag = key].text

\* C15: on a well-formed answer with the UIC.response envelope exec_cmd
\* raises nothing: it returns None when the envelope does not hold the
\* requested key, and the text of the key when it does.
C15_AbsentKeyIsNone ==
    \A t \in Tasks :
        (task[t].last.kind = "response" /\ task[t].last.status < 400 /\ HasEnvelope(task[t].last.body)) =>
            LET e == ResponseElem(task[t].last.body)
            IN  IF HasField(e, AnsweredKey(t))
                THEN task[t].res = Return(PyStr(FieldText(e, AnsweredKey(t))))
                ELSE task[t].res = Return(PyNone)

\* The refresh of call t ended with success.
RefreshReturned(t) == RefreshEnded(t) /\ task[t].result = Return(PyNone)

\* C16: two successful refreshes that received the same three responses
\* left the same snapshot, whatever the snapshot each began on; so when the
\* second began on what the first left, it left it unchanged.
C16_RefreshIdempotent ==
    \A t, u \in Tasks :
        (RefreshReturned(t) /\ RefreshReturned(u) /\ task[t].answers = task[u].answers) =>
            /\ Len(task[t].answers) = 3
            /\ task[t].snap1 = task[u].snap1
            /\ task[u].snap0 = task[t].snap1 => task[u].snap1 = task[u].snap0

\* C16 witness: a refresh changed the snapshot it began on, and the next
\* refresh, begun on what the first left, received the same three responses.
C16_Witness ==
    /\ RefreshReturned(1)
    /\ RefreshReturned(2)
    /\ task[1].answers = <<HttpResponse(200, OtherBody), HttpResponse(200, OtherBody),
                            HttpResponse(200, OtherBody)>>
    /\ task[2].answers = task[1].answers
    /\ task[1].snap0 # task[1].snap1
    /\ task[1].snap0.volume.t = "float"
    /\ task[2].snap0 = task[1].snap1
    /\ Snap = task[2].snap1

\* The probe URL the specification describes for a submitted host and port.
ProbeUrlOf(user_input) ==
    <<"h", "t", "t", "p", ":", "/", "/">> \o user_input.v[CONF_HOST].v \o <<":">>
    \o IntText(IF CONF_PORT \in DOMAIN user_input.v THEN user_input.v[CONF_PORT].v ELSE 80)
    \o <<"/", "t", "e", "s", "t">>

\* The probe was answered with a success status.
ProbeSucceeded(o) == o.kind = "response" /\ o.status < 400

\* C17: the step of the config flow creates an entry if and only if the
\* probe of the submitted host and port was answered with a success status;
\* after any other answer (timeout, connection error, error status) it shows
\* the form again with the error cannot_connect and creates no entry, and
\* the form can be submitted again.
C17_EntryIffProbeSucceeded ==
    /\ flow.pc = "probe" => flow.url = ProbeUrlOf(flow.user_input)
    /\ (flow.result.type = "create_entry") <=> (flow.pc = "done")
    /\ (flow.pc \in {"form", "done"} /\ flow.tries > 0) =>
            IF ProbeSucceeded(flow.probe)
            THEN /\ flow.pc = "done"
                 /\ flow.result = async_create_entry("Soundbar", flow.user_input)
            ELSE /\ flow.pc = "form"
                 /\ flow.result = async_show_form("base" :> "cannot_connect")
    /\ (flow.pc = "form" /\ flow.tries = 0) => flow.result = async_show_form([x \in {} |-> ""])

\* C17 witness: after two probes that failed, the third submission, a host
\* without a port, was probed with success and the entry was created.
C17_Witness ==
    /\ flow.pc = "done"
    /\ flow.tries = 3
    /\ flow.user_input = PyDict(CONF_HOST :> PyStr(Host))
    /\ flow.probe = HttpResponse(204, NotXml)
    /\ flow.result.type = "create_entry"
    /\ flow.result.data = flow.user_input

\* C18: when the host has set an entry up and then unloads it, and the
\* platform unload succeeded, async_unload_entry raises nothing and returns
\* True, the entry's update listener is no longer registered, and the
\* entry's data is gone from hass.data[DOMAIN]; in every sequence of setups
\* and unloads of the entries.
C18_UnloadReleases ==
    (host_call.op = "async_unload_entry" /\ host_call.unload_ok) =>
        /\ host_call.result = Return(PyBool(TRUE))
        /\ config_entries[host_call.entry_id].update_listeners = {}
        /\ host_call.entry_id \notin DOMAIN hass_data[DOMAIN_KEY]

\* C19: the cached volume is None if and only if no refresh has returned
\* yet; until then the state is off; a volume that is known never becomes
\* unknown again, whatever fails later.
C19_VolumeKnownIffRefreshed ==
    /\ []((_volume = PyNone) <=> ~refreshed)
    /\ [](~refreshed => (_state = STATE_OFF /\ _volume = PyNone))
    /\ [][(_volume # PyNone => _volume' # PyNone) /\ (refreshed => refreshed')]_vars

\* C19 witness: after a refresh that succeeded, a refresh failed on a
\* timeout; the volume is still known.
C19_Witness ==
    /\ refreshed
    /\ RefreshEnded(1)
    /\ task[1].result = Raise("TimeoutError")
    /\ task[1].snap0.volume.t = "float"
    /\ _volume.t = "float"

====
